---- MODULE Spec2Model ----
(***************************************************************************)
(* Model of scripts/assemble/main.go (task-net): the compare, download and *)
(* set-version commands and the version helpers they use.                  *)
(*                                                                         *)
(* A Go string is modelled as a sequence of one-character strings, so that *)
(* TrimPrefix, Split, Join, Contains and Atoi are computed, not assumed.   *)
(***************************************************************************)
EXTENDS Integers, Sequences, FiniteSets, TLC

VARIABLES
    \* ---- pure version helpers (compareVersions applied to a pair) ----
    vpc, v1, v2, cmp12, cmp21, cmp11,
    \* ---- compare command ----
    cpc,            \* position in the compare action
    tags,           \* tag_name list decoded from the upstream response
    regRaw,         \* "versions" list decoded from the registry response
    nonSuccess,     \* some HTTP response received so far had a non-2xx status
    taskVersions,   \* result of fetchTaskVersions
    nugetVersions,  \* result of fetchNuGetVersions
    taskOnly,       \* backing array of the slice handed to sortVersions
    printed,        \* lines written to stdout
    cerr,           \* error returned by the compare action ("" = nil)
    \* ---- download command ----
    dpc,            \* position in downloadTask
    platform,       \* --platform
    archive,        \* the downloaded archive: [valid, entries]
    ei,             \* entries the extractor has processed so far
    tree,           \* what exists under <tempDir>/extracted: set of [path, dir]
    tempExists,     \* the directory made by os.MkdirTemp exists
    deferRemove,    \* defer os.RemoveAll(tempDir) has been registered
    outDir,         \* what is at outputDir: "absent", "dir" or "file"
    outDir0,        \* ... when downloadTask was called
    artifact,       \* what is at destPath: "absent", "old", "moved" or "executable"
    artifact0,      \* ... when downloadTask was called
    failedAt,       \* first entry for which a filesystem operation failed (0: none)
    derr,           \* error returned by downloadTask ("" = nil)
    \* ---- set-version command ----
    spc,            \* position in setVersion
    manifest,       \* content of the csproj file
    manifest0,      \* ... when setVersion was called
    target,         \* --version
    wrote,          \* os.WriteFile was called
    serr            \* error returned by setVersion ("" = nil)

versionVars == <<vpc, v1, v2, cmp12, cmp21, cmp11>>
compareVars == <<cpc, tags, regRaw, nonSuccess, taskVersions, nugetVersions,
                 taskOnly, printed, cerr>>
downloadVars == <<dpc, platform, archive, ei, tree, tempExists, deferRemove,
                  outDir, outDir0, artifact, artifact0, failedAt, derr>>
manifestVars == <<spc, manifest, manifest0, target, wrote, serr>>

----------------------------------------------------------------------------
(* Bounds *)

MaxParts == 3       \* dot-separated components of a generated version string
MaxTags == 3        \* releases in the upstream response
MaxReg == 2         \* versions in the registry response
MaxEntries == 2     \* entries in a downloaded archive
MaxManifest == 4    \* tokens in the manifest file
MaxTarget == 2      \* characters in the target version

----------------------------------------------------------------------------
(* strings package *)

\* strings.HasPrefix
HasPrefix(s, p) == Len(s) >= Len(p) /\ SubSeq(s, 1, Len(p)) = p

\* strings.TrimPrefix: removes one leading occurrence of p
TrimPrefix(s, p) == IF HasPrefix(s, p) THEN SubSeq(s, Len(p) + 1, Len(s)) ELSE s

\* strings.Contains
Contains(s, sub) ==
    \E i \in 1..(Len(s) - Len(sub) + 1) : SubSeq(s, i, i + Len(sub) - 1) = sub

\* strings.Split(s, "."): always at least one part
RECURSIVE SplitDots(_)
SplitDots(s) ==
    IF \A i \in 1..Len(s) : s[i] # "."
    THEN <<s>>
    ELSE LET k == CHOOSE i \in 1..Len(s) :
                      s[i] = "." /\ \A j \in 1..(i - 1) : s[j] # "."
         IN  <<SubSeq(s, 1, k - 1)>> \o SplitDots(SubSeq(s, k + 1, Len(s)))

\* strings.Join(parts, ".")
RECURSIVE JoinDots(_)
JoinDots(parts) ==
    IF Len(parts) = 0 THEN <<>>
    ELSE IF Len(parts) = 1 THEN parts[1]
    ELSE parts[1] \o <<".">> \o JoinDots(Tail(parts))

----------------------------------------------------------------------------
(* strconv.Atoi: optional sign, then decimal digits only; 0 on a syntax    *)
(* error (the error is discarded by the caller).                           *)

Digits == {"0", "1", "2", "3", "4", "5", "6", "7", "8", "9"}

DigitVal(c) ==
    CASE c = "0" -> 0 [] c = "1" -> 1 [] c = "2" -> 2 [] c = "3" -> 3
      [] c = "4" -> 4 [] c = "5" -> 5 [] c = "6" -> 6 [] c = "7" -> 7
      [] c = "8" -> 8 [] c = "9" -> 9

RECURSIVE DecimalVal(_)
DecimalVal(s) ==
    IF Len(s) = 0 THEN 0
    ELSE 10 * DecimalVal(SubSeq(s, 1, Len(s) - 1)) + DigitVal(s[Len(s)])

Atoi(s) ==
    LET signed == Len(s) > 0 /\ s[1] \in {"+", "-"}
        body == IF signed THEN Tail(s) ELSE s
    IN  IF Len(body) = 0 \/ \E i \in 1..Len(body) : body[i] \notin Digits
        THEN 0
        ELSE IF signed /\ s[1] = "-" THEN 0 - DecimalVal(body)
        ELSE DecimalVal(body)

----------------------------------------------------------------------------
(* Version helpers *)

Nightly == <<"n", "i", "g", "h", "t", "l", "y">>
Preview == <<"p", "r", "e", "v", "i", "e", "w">>
Alpha == <<"a", "l", "p", "h", "a">>
Beta == <<"b", "e", "t", "a">>
Rc == <<"r", "c">>

isNormalVersion(version) ==
    IF \/ Contains(version, Nightly)
       \/ Contains(version, Preview)
       \/ Contains(version, Alpha)
       \/ Contains(version, Beta)
       \/ Contains(version, Rc)
    THEN FALSE
    ELSE IF Len(version) = 0 \/ version[1] \notin Digits
    THEN FALSE
    ELSE TRUE

RECURSIVE PadTo3(_)
PadTo3(parts) == IF Len(parts) < 3 THEN PadTo3(Append(parts, <<"0">>)) ELSE parts

normalizeVersion(version) ==
    LET parts == PadTo3(SplitDots(TrimPrefix(version, <<"v">>)))
    IN  JoinDots(SubSeq(parts, 1, 3))

RECURSIVE CompareFrom(_, _, _)
CompareFrom(parts1, parts2, i) ==
    IF i > 3 THEN 0
    ELSE LET n1 == Atoi(parts1[i])
             n2 == Atoi(parts2[i])
         IN  IF n1 < n2 THEN -1
             ELSE IF n1 > n2 THEN 1
             ELSE CompareFrom(parts1, parts2, i + 1)

RECURSIVE CompareFromLeq(_, _, _)
CompareFromLeq(parts1, parts2, i) ==
    IF i > 3 THEN 0
    ELSE LET n1 == Atoi(parts1[i])
             n2 == Atoi(parts2[i])
         IN  IF n1 <= n2 THEN -1
             ELSE IF n1 > n2 THEN 1
             ELSE CompareFromLeq(parts1, parts2, i + 1)

compareVersionsLeq(a, b) ==
    CompareFromLeq(SplitDots(normalizeVersion(a)), SplitDots(normalizeVersion(b)), 1)

compareVersions(a, b) ==
    CompareFrom(SplitDots(normalizeVersion(a)), SplitDots(normalizeVersion(b)), 1)

\* sort.Slice on fewer than 12 elements is an insertion sort driven by less
RECURSIVE SiftDown(_, _)
SiftDown(arr, j) ==
    IF j > 1 /\ compareVersions(arr[j], arr[j - 1]) > 0
    THEN SiftDown([arr EXCEPT ![j] = arr[j - 1], ![j - 1] = arr[j]], j - 1)
    ELSE arr

RECURSIVE InsertionSort(_, _)
InsertionSort(arr, i) ==
    IF i > Len(arr) THEN arr ELSE InsertionSort(SiftDown(arr, i), i + 1)

RECURSIVE SiftDownAscending(_, _)
SiftDownAscending(arr, j) ==
    IF j > 1 /\ compareVersions(arr[j], arr[j - 1]) < 0
    THEN SiftDownAscending([arr EXCEPT ![j] = arr[j - 1], ![j - 1] = arr[j]], j - 1)
    ELSE arr

RECURSIVE InsertionSortAscending(_, _)
InsertionSortAscending(arr, i) ==
    IF i > Len(arr) THEN arr
    ELSE InsertionSortAscending(SiftDownAscending(arr, i), i + 1)

sortVersionsAscending(versions) ==
    [input |-> versions, sorted |-> InsertionSortAscending(versions, 2)]

\* input: the caller's backing array after the call; sorted: the returned slice
sortVersions(versions) ==
    [input |-> versions, sorted |-> InsertionSort(versions, 2)]

----------------------------------------------------------------------------
(* Generated version strings for the pure helpers *)

Components == {<<"0">>, <<"1", "0">>, <<"x">>}

RECURSIVE Dotted(_)
Dotted(n) ==
    IF n <= 1 THEN Components
    ELSE {c \o <<".">> \o d : c \in Components, d \in Dotted(n - 1)}

AllDotted == UNION {Dotted(n) : n \in 1..MaxParts}

Extras == {<<>>, <<"-", "1">>, <<"0", "2">>, <<"2">>}

VersionStrings == AllDotted \cup {<<"v">> \o s : s \in AllDotted} \cup Extras

----------------------------------------------------------------------------
(* HTTP responses.  A response is a record                                 *)
(*   failed  : http.Get returned an error (no response)                    *)
(*   success : the status code is 2xx                                      *)
(*   json    : "array", "object" or "garbage" (what the body parses as)    *)
(*   items   : tag_name / versions / resources carried by the body         *)

PackageBaseAddressType == "PackageBaseAddress/3.0.0"

TagPool ==
    { <<"v", "3", ".", "4", "4", ".", "0">>,
      <<"v", "3", ".", "4", "3", ".", "0">>,
      <<"v", "3", ".", "4", "3", ".", "0", "-", "r", "c", "1">>,
      <<"v", "3", ".", "4", "4">>,
      <<"v", "3", ".", "4", "4", ".", "0", "-", "1">> }

RegistryPool ==
    { <<"3", ".", "4", "3", ".", "0">>,
      <<"3", ".", "4", "4">>,
      <<"3", ".", "4", "4", ".", "0", "-", "1">> }

RECURSIVE SeqsUpTo(_, _)
SeqsUpTo(S, n) ==
    IF n = 0 THEN {<<>>}
    ELSE LET shorter == SeqsUpTo(S, n - 1)
         IN  shorter \cup {Append(q, x) : q \in shorter, x \in S}

ResourceLists ==
    { <<>>,
      <<[type |-> "SearchQueryService", id |-> "search/"]>>,
      <<[type |-> "SearchQueryService", id |-> "search/"],
        [type |-> PackageBaseAddressType, id |-> "flat/"]>>,
      <<[type |-> PackageBaseAddressType, id |-> ""]>> }

Unreachable == [failed |-> TRUE, success |-> FALSE, json |-> "garbage", items |-> <<>>]

Responses(itemLists, shape) ==
    {Unreachable}
    \cup {[failed |-> FALSE, success |-> ok, json |-> j, items |-> <<>>] :
             ok \in BOOLEAN, j \in {"array", "object", "garbage"} \ {shape}}
    \cup {[failed |-> FALSE, success |-> ok, json |-> shape, items |-> l] :
             ok \in BOOLEAN, l \in itemLists}

\* lines 55-62: the loop over the decoded releases
RECURSIVE FilterTags(_)
FilterTags(releases) ==
    IF Len(releases) = 0 THEN <<>>
    ELSE LET version == TrimPrefix(Head(releases), <<"v">>)
         IN  (IF isNormalVersion(version) THEN <<version>> ELSE <<>>)
             \o FilterTags(Tail(releases))

fetchTaskVersions(resp) ==
    IF resp.failed THEN [versions |-> <<>>, err |-> "get"]
    ELSE IF resp.json # "array" THEN [versions |-> <<>>, err |-> "decode"]
    ELSE [versions |-> FilterTags(resp.items), err |-> ""]

\* lines 80-86: first resource of the wanted type, "" when there is none
RECURSIVE FindPackageBase(_)
FindPackageBase(resources) ==
    IF Len(resources) = 0 THEN ""
    ELSE IF Head(resources).type = PackageBaseAddressType THEN Head(resources).id
    ELSE FindPackageBase(Tail(resources))

\* fetchNuGetVersions, first request: the service index
fetchServiceIndex(resp) ==
    IF resp.failed THEN [base |-> "", err |-> "get"]
    ELSE IF resp.json # "object" THEN [base |-> "", err |-> "decode"]
    ELSE IF FindPackageBase(resp.items) = ""
    THEN [base |-> "", err |-> "package base address not found"]
    ELSE [base |-> FindPackageBase(resp.items), err |-> ""]

\* lines 106-111: the loop over the decoded versions
RECURSIVE FilterRegistry(_)
FilterRegistry(versions) ==
    IF Len(versions) = 0 THEN <<>>
    ELSE (IF isNormalVersion(Head(versions)) /\ ~Contains(Head(versions), <<"-">>)
          THEN <<Head(versions)>> ELSE <<>>)
         \o FilterRegistry(Tail(versions))

\* fetchNuGetVersions, second request: the package's version list
fetchPackageVersions(resp) ==
    IF resp.failed THEN [versions |-> <<>>, err |-> "get"]
    ELSE IF resp.json # "object" THEN [versions |-> <<>>, err |-> "decode"]
    ELSE [versions |-> FilterRegistry(resp.items), err |-> ""]

\* lines 442-446: the set of normalized registry versions
RECURSIVE NugetSet(_)
NugetSet(versions) ==
    IF Len(versions) = 0 THEN {}
    ELSE {normalizeVersion(Head(versions))} \cup NugetSet(Tail(versions))

RECURSIVE TaskOnlyLoop(_, _)
TaskOnlyLoop(versions, nugetSet) ==
    IF Len(versions) = 0 THEN <<>>
    ELSE (IF normalizeVersion(Head(versions)) \notin nugetSet
          THEN <<Head(versions)>> ELSE <<>>)
         \o TaskOnlyLoop(Tail(versions), nugetSet)

RECURSIVE TaskOnlyLoopDedup(_, _)
TaskOnlyLoopDedup(versions, nugetSet) ==
    IF Len(versions) = 0 THEN <<>>
    ELSE (IF normalizeVersion(Head(versions)) \notin nugetSet
          THEN <<Head(versions)>> ELSE <<>>)
         \o TaskOnlyLoopDedup(Tail(versions),
                              nugetSet \cup {normalizeVersion(Head(versions))})

findTaskOnlyDedup(tv, nv) == TaskOnlyLoopDedup(tv, NugetSet(nv))

\* lines 442-455: the versions of taskVersions whose normalized form is not
\* among the normalized nugetVersions, in upstream order
findTaskOnly(tv, nv) == TaskOnlyLoop(tv, NugetSet(nv))

----------------------------------------------------------------------------
(* Idle values of the variables a specification does not use *)

IdleVersion ==
    /\ vpc = "idle" /\ v1 = <<>> /\ v2 = <<>>
    /\ cmp12 = 0 /\ cmp21 = 0 /\ cmp11 = 0

IdleDownload ==
    /\ dpc = "idle" /\ platform = "" /\ archive = [valid |-> FALSE, entries |-> <<>>]
    /\ ei = 0 /\ tree = {} /\ tempExists = FALSE /\ deferRemove = FALSE
    /\ outDir = "absent" /\ outDir0 = "absent"
    /\ artifact = "absent" /\ artifact0 = "absent"
    /\ failedAt = 0 /\ derr = ""

IdleManifest ==
    /\ spc = "idle" /\ manifest = <<>> /\ manifest0 = <<>> /\ target = <<>>
    /\ wrote = FALSE /\ serr = ""

IdleCompare ==
    /\ cpc = "idle" /\ tags = <<>> /\ regRaw = <<>> /\ nonSuccess = FALSE
    /\ taskVersions = <<>> /\ nugetVersions = <<>> /\ taskOnly = <<>>
    /\ printed = <<>> /\ cerr = ""

----------------------------------------------------------------------------
(* The compare command (main, compare action) *)

vars == <<versionVars, compareVars, downloadVars, manifestVars>>

NotOK(resp) == ~resp.failed /\ ~resp.success

InitCompare ==
    /\ cpc = "fetchTask" /\ tags = <<>> /\ regRaw = <<>> /\ nonSuccess = FALSE
    /\ taskVersions = <<>> /\ nugetVersions = <<>> /\ taskOnly = <<>>
    /\ printed = <<>> /\ cerr = ""
    /\ IdleVersion /\ IdleDownload /\ IdleManifest

\* lines 432-435
FetchTaskVersions ==
    /\ cpc = "fetchTask"
    /\ \E resp \in Responses(SeqsUpTo(TagPool, MaxTags), "array") :
          LET r == fetchTaskVersions(resp)
          IN  /\ tags' = resp.items
              /\ nonSuccess' = (nonSuccess \/ NotOK(resp))
              /\ taskVersions' = r.versions
              /\ IF r.err # ""
                 THEN cerr' = "failed to fetch Task versions" /\ cpc' = "exit"
                 ELSE cerr' = cerr /\ cpc' = "fetchIndex"
    /\ UNCHANGED <<regRaw, nugetVersions, taskOnly, printed, versionVars, downloadVars, manifestVars>>

\* lines 437-440, first request of fetchNuGetVersions
FetchServiceIndex ==
    /\ cpc = "fetchIndex"
    /\ \E resp \in Responses(ResourceLists, "object") :
          LET r == fetchServiceIndex(resp)
          IN  /\ nonSuccess' = (nonSuccess \/ NotOK(resp))
              /\ IF r.err # ""
                 THEN cerr' = "failed to fetch NuGet versions" /\ cpc' = "exit"
                 ELSE cerr' = cerr /\ cpc' = "fetchVersions"
    /\ UNCHANGED <<tags, regRaw, taskVersions, nugetVersions, taskOnly, printed,
                   versionVars, downloadVars, manifestVars>>

\* lines 437-440, second request of fetchNuGetVersions
FetchPackageVersions ==
    /\ cpc = "fetchVersions"
    /\ \E resp \in Responses(SeqsUpTo(RegistryPool, MaxReg), "object") :
          LET r == fetchPackageVersions(resp)
          IN  /\ regRaw' = resp.items
              /\ nonSuccess' = (nonSuccess \/ NotOK(resp))
              /\ nugetVersions' = r.versions
              /\ IF r.err # ""
                 THEN cerr' = "failed to fetch NuGet versions" /\ cpc' = "exit"
                 ELSE cerr' = cerr /\ cpc' = "diff"
    /\ UNCHANGED <<tags, taskVersions, taskOnly, printed, versionVars, downloadVars, manifestVars>>

\* lines 442-455
Diff ==
    /\ cpc = "diff"
    /\ taskOnly' = findTaskOnly(taskVersions, nugetVersions)
    /\ cpc' = "sort"
    /\ UNCHANGED <<tags, regRaw, nonSuccess, taskVersions, nugetVersions, printed,
                   cerr, versionVars, downloadVars, manifestVars>>

\* lines 457-464: sort, then print one version per line
SortAndPrint ==
    /\ cpc = "sort"
    /\ LET r == sortVersions(taskOnly)
       IN  /\ taskOnly' = r.input
           /\ printed' = r.sorted
    /\ cpc' = "done"
    /\ UNCHANGED <<tags, regRaw, nonSuccess, taskVersions, nugetVersions, cerr,
                   versionVars, downloadVars, manifestVars>>

NextCompare ==
    \/ FetchTaskVersions
    \/ FetchServiceIndex
    \/ FetchPackageVersions
    \/ Diff
    \/ SortAndPrint

SpecCompare == InitCompare /\ [][NextCompare]_vars

Range(q) == {q[i] : i \in 1..Len(q)}

Count(q, x) == Cardinality({i \in 1..Len(q) : q[i] = x})

\* the versions the compare operation is claimed to report, as a set of
\* positions of the upstream tag list
MissingPositions ==
    LET stripped(i) == TrimPrefix(tags[i], <<"v">>)
        registry == {normalizeVersion(r) :
                        r \in {x \in Range(regRaw) :
                                  isNormalVersion(x) /\ ~Contains(x, <<"-">>)}}
    IN  {i \in 1..Len(tags) :
            /\ isNormalVersion(stripped(i))
            /\ normalizeVersion(stripped(i)) \notin registry}

\* C1: compare prints exactly the upstream versions (leading 'v' stripped,
\* normal) whose normalized form is not the normalized form of a normal,
\* hyphen-free registry version: each as often as it occurs upstream.
C1_ExactlyMissing ==
    (cpc = "done" /\ cerr = "") =>
        /\ Len(printed) = Cardinality(MissingPositions)
        /\ \A i \in MissingPositions :
              Count(printed, TrimPrefix(tags[i], <<"v">>)) =
                  Cardinality({j \in MissingPositions :
                                  TrimPrefix(tags[j], <<"v">>) =
                                      TrimPrefix(tags[i], <<"v">>)})

\* 3.44 and 3.44.0 share a normalized form and are both missing and printed;
\* 3.43.0 is published and the prerelease is filtered
C1_Witness ==
    /\ cpc = "done" /\ cerr = ""
    /\ tags = << <<"v", "3", ".", "4", "4">>,
                 <<"v", "3", ".", "4", "3", ".", "0">>,
                 <<"v", "3", ".", "4", "4", ".", "0">> >>
    /\ regRaw = << <<"3", ".", "4", "3", ".", "0">> >>
    /\ printed = << <<"3", ".", "4", "4">>, <<"3", ".", "4", "4", ".", "0">> >>

\* C2: the printed sequence is a permutation of the missing versions in
\* descending compareVersions order, and the slice handed to sortVersions is
\* left as the diff produced it.
C2_SortedDescending ==
    (cpc = "done" /\ cerr = "") =>
        /\ \A i, j \in 1..Len(printed) :
              i < j => compareVersions(printed[i], printed[j]) >= 0
        /\ Len(printed) = Len(taskOnly)
        /\ \A x \in Range(taskOnly) \cup Range(printed) :
              Count(printed, x) = Count(taskOnly, x)
        /\ taskOnly = findTaskOnly(taskVersions, nugetVersions)

\* three missing versions arriving oldest first are printed newest first
C2_Witness ==
    /\ cpc = "done" /\ cerr = ""
    /\ taskOnly = << <<"3", ".", "4", "3", ".", "0">>,
                     <<"3", ".", "4", "4", ".", "0">>,
                     <<"3", ".", "4", "4", ".", "0", "-", "1">> >>
    /\ printed = << <<"3", ".", "4", "4", ".", "0">>,
                    <<"3", ".", "4", "4", ".", "0", "-", "1">>,
                    <<"3", ".", "4", "3", ".", "0">> >>

\* C6: a non-success HTTP status makes the fetch fail, and compare prints
\* nothing.
C6_NonSuccessIsError ==
    nonSuccess => (cerr # "" /\ printed = <<>>)

\* C10: no printed version compares equal to a registry version that passed
\* the registry filter.
C10_DiffAgreesWithComparator ==
    (cpc = "done" /\ cerr = "" /\ ~nonSuccess) =>
        \A i \in 1..Len(printed) : \A k \in 1..Len(nugetVersions) :
            compareVersions(printed[i], nugetVersions[k]) # 0

----------------------------------------------------------------------------
(* Filesystem under <tempDir>/extracted.  A path is a sequence of names;   *)
(* <<>> is the extraction directory itself.                                *)

Parent(p) == SubSeq(p, 1, Len(p) - 1)

Prefixes(p) == {SubSeq(p, 1, k) : k \in 0..Len(p)}

IsFile(t, p) == [path |-> p, dir |-> FALSE] \in t

IsDir(t, p) == [path |-> p, dir |-> TRUE] \in t

\* os.MkdirAll: fails when a component of the path exists and is not a
\* directory; the components above the offending one are still created
MkdirAll(t, p) ==
    LET clear(q) == \A r \in Prefixes(q) : ~IsFile(t, r)
    IN  [ok |-> clear(p),
         tree |-> t \cup {[path |-> q, dir |-> TRUE] : q \in {x \in Prefixes(p) : clear(x)}}]

\* os.OpenFile with O_CREATE: needs the parent directory, fails on a directory
OpenFile(t, p) ==
    LET ok == Len(p) > 0 /\ IsDir(t, Parent(p)) /\ ~IsDir(t, p)
    IN  [ok |-> ok,
         tree |-> IF ok THEN t \cup {[path |-> p, dir |-> FALSE]} ELSE t]

\* One iteration of extractZip's loop (lines 230-256).
\* err: the extractor returns an error; failed: some operation failed
extractZipEntry(t, e) ==
    IF e.kind = "dir"
    THEN LET m == MkdirAll(t, e.name)
         IN  [tree |-> m.tree, err |-> FALSE, failed |-> ~m.ok]
    ELSE LET m == MkdirAll(t, Parent(e.name))
             o == OpenFile(m.tree, e.name)
         IN  IF ~o.ok THEN [tree |-> m.tree, err |-> TRUE, failed |-> TRUE]
             ELSE [tree |-> o.tree, err |-> e.corrupt, failed |-> ~m.ok \/ e.corrupt]

\* One iteration of extractTarGz's loop (lines 276-308)
extractTarGzEntry(t, e) ==
    IF e.kind = "dir"
    THEN LET m == MkdirAll(t, e.name)
         IN  [tree |-> m.tree, err |-> ~m.ok, failed |-> ~m.ok]
    ELSE LET m == MkdirAll(t, Parent(e.name))
             o == OpenFile(m.tree, e.name)
         IN  IF ~m.ok THEN [tree |-> m.tree, err |-> TRUE, failed |-> TRUE]
             ELSE IF ~o.ok THEN [tree |-> m.tree, err |-> TRUE, failed |-> TRUE]
             ELSE [tree |-> o.tree, err |-> e.corrupt, failed |-> e.corrupt]

\* lines 340-344: the extractor is chosen by platform
extractEntry(p, t, e) ==
    IF p = "windows" THEN extractZipEntry(t, e) ELSE extractTarGzEntry(t, e)

\* lines 357-360
TaskBinary(p) == IF p = "windows" THEN <<"task.exe">> ELSE <<"task">>

EntryPool ==
    { [name |-> <<"task">>, kind |-> "file", corrupt |-> FALSE],
      [name |-> <<"task.exe">>, kind |-> "file", corrupt |-> FALSE],
      [name |-> <<"task">>, kind |-> "file", corrupt |-> TRUE],
      [name |-> <<"doc">>, kind |-> "dir", corrupt |-> FALSE],
      [name |-> <<"doc">>, kind |-> "file", corrupt |-> FALSE],
      [name |-> <<"doc", "README">>, kind |-> "file", corrupt |-> FALSE] }

Archives ==
    {[valid |-> FALSE, entries |-> <<>>]}
    \cup {[valid |-> TRUE, entries |-> l] : l \in SeqsUpTo(EntryPool, MaxEntries)}

AfterReturnOnSuccessOnly(registered, exists, err) ==
    IF registered /\ err = "" THEN FALSE ELSE exists

\* line 327: the deferred os.RemoveAll(tempDir) runs when downloadTask returns,
\* whatever it returns; the result is whether the directory still exists
AfterReturn(registered, exists, err) ==
    IF registered THEN FALSE ELSE exists

----------------------------------------------------------------------------
(* The download command (downloadTask) *)

Return(msg, t) ==
    /\ dpc' = "done"
    /\ derr' = msg
    /\ tempExists' = AfterReturn(deferRemove, tempExists, msg)
    /\ tree' = IF AfterReturn(deferRemove, tempExists, msg) THEN t ELSE {}

InitDownload ==
    /\ dpc = "start"
    /\ platform \in {"linux", "windows"}
    /\ archive = [valid |-> FALSE, entries |-> <<>>]
    /\ ei = 0 /\ tree = {} /\ tempExists = FALSE /\ deferRemove = FALSE
    /\ outDir0 \in {"absent", "dir", "file"}
    /\ outDir = outDir0
    /\ artifact0 \in (IF outDir0 = "dir" THEN {"absent", "old"} ELSE {"absent"})
    /\ artifact = artifact0
    /\ failedAt = 0 /\ derr = ""
    /\ IdleVersion /\ IdleCompare /\ IdleManifest

\* lines 322-327
MkdirTemp ==
    /\ dpc = "start"
    /\ \E ok \in BOOLEAN :
          IF ok
          THEN /\ tempExists' = TRUE /\ deferRemove' = TRUE /\ dpc' = "download"
               /\ UNCHANGED <<tree, derr>>
          ELSE /\ Return("failed to create temp directory", tree)
               /\ UNCHANGED deferRemove
    /\ UNCHANGED <<platform, archive, ei, outDir, outDir0, artifact, artifact0,
                   failedAt, versionVars, compareVars, manifestVars>>

\* lines 329-336, downloadFile
Download ==
    /\ dpc = "download"
    /\ \E outcome \in {"ok", "unreachable", "bad status", "copy"} :
          IF outcome = "ok"
          THEN /\ \E a \in Archives : archive' = a
               /\ dpc' = "extract"
               /\ UNCHANGED <<tree, tempExists, derr>>
          ELSE /\ Return("failed to download", tree)
               /\ UNCHANGED archive
    /\ UNCHANGED <<platform, ei, deferRemove, outDir, outDir0, artifact, artifact0,
                   failedAt, versionVars, compareVars, manifestVars>>

\* lines 222-228 and 262-274: open the archive; extractZip creates dest
ExtractOpen ==
    /\ dpc = "extract"
    /\ IF ~archive.valid
       THEN Return("failed to extract", tree)
       ELSE /\ tree' = IF platform = "windows" THEN MkdirAll(tree, <<>>).tree ELSE tree
            /\ dpc' = "entries"
            /\ UNCHANGED <<tempExists, derr>>
    /\ UNCHANGED <<platform, archive, ei, deferRemove, outDir, outDir0, artifact,
                   artifact0, failedAt, versionVars, compareVars, manifestVars>>

\* one entry of the archive, in archive order
ExtractEntry ==
    /\ dpc = "entries"
    /\ ei < Len(archive.entries)
    /\ LET r == extractEntry(platform, tree, archive.entries[ei + 1])
       IN  /\ ei' = ei + 1
           /\ failedAt' = IF failedAt = 0 /\ r.failed THEN ei + 1 ELSE failedAt
           /\ IF r.err
              THEN Return("failed to extract", r.tree)
              ELSE tree' = r.tree /\ UNCHANGED <<dpc, tempExists, derr>>
    /\ UNCHANGED <<platform, archive, deferRemove, outDir, outDir0, artifact,
                   artifact0, versionVars, compareVars, manifestVars>>

\* lines 258, 310 and 350-354: the extractor returns nil; create outputDir
MkdirOutput ==
    /\ dpc = "entries"
    /\ ei = Len(archive.entries)
    /\ \E ok \in BOOLEAN :
          IF ok /\ outDir # "file"
          THEN /\ outDir' = "dir" /\ dpc' = "rename"
               /\ UNCHANGED <<tree, tempExists, derr>>
          ELSE /\ Return("failed to create output directory", tree)
               /\ UNCHANGED outDir
    /\ UNCHANGED <<platform, archive, ei, deferRemove, outDir0, artifact, artifact0,
                   failedAt, versionVars, compareVars, manifestVars>>

\* lines 362-371
Rename ==
    /\ dpc = "rename"
    /\ \E ok \in BOOLEAN :
          IF ok /\ (IsFile(tree, TaskBinary(platform)) \/ IsDir(tree, TaskBinary(platform)))
          THEN /\ artifact' = "moved"
               /\ tree' = {x \in tree : ~HasPrefix(x.path, TaskBinary(platform))}
               /\ dpc' = "chmod"
               /\ UNCHANGED <<tempExists, derr>>
          ELSE /\ Return("failed to move binary", tree)
               /\ UNCHANGED artifact
    /\ UNCHANGED <<platform, archive, ei, deferRemove, outDir, outDir0, artifact0,
                   failedAt, versionVars, compareVars, manifestVars>>

\* lines 373-382: chmod unless the platform is windows, then return nil
Chmod ==
    /\ dpc = "chmod"
    /\ IF platform = "windows"
       THEN /\ Return("", tree)
            /\ UNCHANGED artifact
       ELSE \E ok \in BOOLEAN :
               IF ok
               THEN /\ artifact' = "executable"
                    /\ Return("", tree)
               ELSE /\ Return("failed to make executable", tree)
                    /\ UNCHANGED artifact
    /\ UNCHANGED <<platform, archive, ei, deferRemove, outDir, outDir0, artifact0,
                   failedAt, versionVars, compareVars, manifestVars>>

NextDownload ==
    \/ MkdirTemp
    \/ Download
    \/ ExtractOpen
    \/ ExtractEntry
    \/ MkdirOutput
    \/ Rename
    \/ Chmod

SpecDownload == InitDownload /\ [][NextDownload]_vars

C5_AllOrNothing ==
    (dpc = "done" /\ derr # "") => (outDir = outDir0 /\ artifact = artifact0)

\* C9: once an operation on an entry has failed, the extractor has returned
\* an error and has processed no later entry.
C9_FirstErrorReturned ==
    failedAt # 0 => (derr = "failed to extract" /\ ei = failedAt)

----------------------------------------------------------------------------
(* The set-version command (setVersion).  The manifest is a sequence of    *)
(* tokens: the three tags, a newline, and "x" for any other character; the *)
(* target version is a sequence of characters.                             *)

VersionOpen == "<Version>"
VersionClose == "</Version>"
PropertyGroup == "<PropertyGroup>"
Newline == "\n"
Indent == "    "

ManifestTokens == {VersionOpen, VersionClose, PropertyGroup, Newline, "x"}

TargetChars == {"0", "$"}

Letters ==
    {"a", "b", "c", "d", "e", "f", "g", "h", "i", "j", "k", "l", "m", "n", "o",
     "p", "q", "r", "s", "t", "u", "v", "w", "x", "y", "z",
     "A", "B", "C", "D", "E", "F", "G", "H", "I", "J", "K", "L", "M", "N", "O",
     "P", "Q", "R", "S", "T", "U", "V", "W", "X", "Y", "Z"}

NameChars == Letters \cup Digits \cup {"_"}

\* regexp `<Version>.*?</Version>`: the leftmost match starting at or after
\* from, as <<first, last>>; <<0, 0>> when there is none ('.' excludes \n)
VersionMatch(text, from) ==
    LET ends(i) == {j \in (i + 1)..Len(text) :
                       /\ text[j] = VersionClose
                       /\ \A k \in (i + 1)..(j - 1) : text[k] # Newline}
        starts == {i \in from..Len(text) : text[i] = VersionOpen /\ ends(i) # {}}
    IN  IF starts = {} THEN <<0, 0>>
        ELSE LET i == CHOOSE x \in starts : \A y \in starts : x <= y
             IN  <<i, CHOOSE x \in ends(i) : \A y \in ends(i) : x <= y>>

\* regexp `(<PropertyGroup>\s*)`: leftmost match at or after from, greedy
RECURSIVE SpaceRun(_, _)
SpaceRun(text, k) ==
    IF k <= Len(text) /\ text[k] \in {Newline, Indent} THEN SpaceRun(text, k + 1) ELSE k - 1

PropertyGroupMatch(text, from) ==
    LET starts == {i \in from..Len(text) : text[i] = PropertyGroup}
    IN  IF starts = {} THEN <<0, 0>>
        ELSE LET i == CHOOSE x \in starts : \A y \in starts : x <= y
             IN  <<i, SpaceRun(text, i + 1)>>

\* regexp's template syntax: what follows a '$' (extract in regexp.go); a
\* number with a leading zero is a name, not a group number
ExtractName(str) ==
    LET brace == Len(str) > 0 /\ str[1] = "{"
        body == IF brace THEN Tail(str) ELSE str
        n == Cardinality({i \in 1..Len(body) : \A k \in 1..i : body[k] \in NameChars})
        name == SubSeq(body, 1, n)
        closed == n < Len(body) /\ body[n + 1] = "}"
    IN  [ok |-> n > 0 /\ (brace => closed),
         num |-> IF (\A k \in 1..n : name[k] \in Digits) /\ ~(n > 1 /\ name[1] = "0")
                 THEN DecimalVal(name) ELSE -1,
         rest |-> SubSeq(body, IF brace THEN n + 2 ELSE n + 1, Len(body))]

\* Regexp.expand: $$ is a dollar, $n and ${n} are group n of the match (empty
\* when the pattern has no such group), a malformed reference stays as it is
RECURSIVE Expand(_, _, _)
Expand(template, groups, ngroups) ==
    IF \A i \in 1..Len(template) : template[i] # "$" THEN template
    ELSE LET k == CHOOSE i \in 1..Len(template) :
                      template[i] = "$" /\ \A j \in 1..(i - 1) : template[j] # "$"
             before == SubSeq(template, 1, k - 1)
             after == SubSeq(template, k + 1, Len(template))
             x == ExtractName(after)
         IN  IF Len(after) > 0 /\ after[1] = "$"
             THEN before \o <<"$">> \o Expand(Tail(after), groups, ngroups)
             ELSE IF ~x.ok
             THEN before \o <<"$">> \o Expand(after, groups, ngroups)
             ELSE before
                  \o (IF x.num >= 0 /\ x.num <= ngroups THEN groups[x.num + 1] ELSE <<>>)
                  \o Expand(x.rest, groups, ngroups)

\* ReplaceAllString for `<Version>.*?</Version>` (line 397)
RECURSIVE ReplaceVersions(_, _, _)
ReplaceVersions(text, from, template) ==
    LET m == VersionMatch(text, from)
    IN  IF m = <<0, 0>> THEN SubSeq(text, from, Len(text))
        ELSE SubSeq(text, from, m[1] - 1)
             \o Expand(template, <<SubSeq(text, m[1], m[2])>>, 0)
             \o ReplaceVersions(text, m[2] + 1, template)

\* ReplaceAllString for `(<PropertyGroup>\s*)` (line 402)
RECURSIVE ReplacePropertyGroups(_, _, _)
ReplacePropertyGroups(text, from, template) ==
    LET m == PropertyGroupMatch(text, from)
        g == SubSeq(text, m[1], m[2])
    IN  IF m = <<0, 0>> THEN SubSeq(text, from, Len(text))
        ELSE SubSeq(text, from, m[1] - 1)
             \o Expand(template, <<g, g>>, 1)
             \o ReplacePropertyGroups(text, m[2] + 1, template)

\* lines 393-406: the patched text, or an error
PatchNoStructureCheck(text, version) ==
    IF VersionMatch(text, 1) # <<0, 0>>
    THEN [err |-> "",
          text |-> ReplaceVersions(text, 1, <<VersionOpen>> \o version \o <<VersionClose>>)]
    ELSE [err |-> "",
          text |-> ReplacePropertyGroups(text, 1,
                       <<"$", "{", "1", "}", Newline, Indent, VersionOpen>>
                       \o version \o <<VersionClose>>)]

Patch(text, version) ==
    IF VersionMatch(text, 1) # <<0, 0>>
    THEN [err |-> "",
          text |-> ReplaceVersions(text, 1, <<VersionOpen>> \o version \o <<VersionClose>>)]
    ELSE IF PropertyGroupMatch(text, 1) # <<0, 0>>
    THEN [err |-> "",
          text |-> ReplacePropertyGroups(text, 1,
                       <<"$", "{", "1", "}", Newline, Indent, VersionOpen>>
                       \o version \o <<VersionClose>>)]
    ELSE [err |-> "no <PropertyGroup> found in csproj file", text |-> text]

\* setVersion: file is the content of the file afterwards.  os.WriteFile
\* truncates on open, so a failed write may leave the file empty.
setVersion(file, version, readOK, writeOutcome) ==
    IF ~readOK
    THEN [file |-> file, wrote |-> FALSE, err |-> "failed to read csproj file"]
    ELSE LET r == Patch(file, version)
         IN  IF r.err # "" THEN [file |-> file, wrote |-> FALSE, err |-> r.err]
             ELSE IF writeOutcome = "ok"
             THEN [file |-> r.text, wrote |-> TRUE, err |-> ""]
             ELSE [file |-> IF writeOutcome = "truncated" THEN <<>> ELSE file,
                   wrote |-> TRUE, err |-> "failed to write csproj file"]

InitSetVersion ==
    /\ spc = "start"
    /\ manifest0 \in SeqsUpTo(ManifestTokens, MaxManifest)
    /\ manifest = manifest0
    /\ target \in SeqsUpTo(TargetChars, MaxTarget)
    /\ wrote = FALSE /\ serr = ""
    /\ IdleVersion /\ IdleCompare /\ IdleDownload

SetVersion ==
    /\ spc = "start"
    /\ \E readOK \in BOOLEAN, writeOutcome \in {"ok", "not opened", "truncated"} :
          LET r == setVersion(manifest, target, readOK, writeOutcome)
          IN  /\ manifest' = r.file
              /\ wrote' = r.wrote
              /\ serr' = r.err
    /\ spc' = "done"
    /\ UNCHANGED <<manifest0, target, versionVars, compareVars, downloadVars>>

NextSetVersion == SetVersion

SpecSetVersion == InitSetVersion /\ [][NextSetVersion]_vars

\* a <Version>...</Version> field: an opening tag and a later closing tag
\* with no line break between them
HasVersionField(text) ==
    \E i, j \in 1..Len(text) :
        /\ i < j /\ text[i] = VersionOpen /\ text[j] = VersionClose
        /\ \A k \in (i + 1)..(j - 1) : text[k] # Newline

Occurrences(text, sub) ==
    Cardinality({i \in 1..(Len(text) - Len(sub) + 1) :
                    SubSeq(text, i, i + Len(sub) - 1) = sub})

\* C7: when the manifest has a <Version> field and setVersion succeeds, the
\* file holds exactly one <Version>target</Version> and is the original text
\* with the value of one field replaced by the target.
C7_ExactlyOneField ==
    (spc = "done" /\ serr = "" /\ HasVersionField(manifest0)) =>
        /\ Occurrences(manifest, <<VersionOpen>> \o target \o <<VersionClose>>) = 1
        /\ \E i, j \in 1..Len(manifest0) :
              /\ i < j /\ manifest0[i] = VersionOpen /\ manifest0[j] = VersionClose
              /\ manifest = SubSeq(manifest0, 1, i) \o target
                            \o SubSeq(manifest0, j, Len(manifest0))

\* C8: with neither a <Version> field nor a <PropertyGroup> tag, setVersion
\* returns an error, writes nothing and leaves the file as it was.
C8_StructureError ==
    (/\ spc = "done"
     /\ ~HasVersionField(manifest0)
     /\ \A i \in 1..Len(manifest0) : manifest0[i] # PropertyGroup) =>
        (serr # "" /\ ~wrote /\ manifest = manifest0)

\* the file was readable, has an opening and a closing tag on different
\* lines and no <PropertyGroup>: setVersion reports the missing structure
C8_Witness ==
    /\ spc = "done"
    /\ manifest0 = <<VersionOpen, Newline, VersionClose>>
    /\ serr = "no <PropertyGroup> found in csproj file"
    /\ manifest = manifest0 /\ ~wrote

----------------------------------------------------------------------------
(* Specification of the pure version helpers *)

InitVersions ==
    /\ vpc = "start"
    /\ v1 \in VersionStrings
    /\ v2 \in VersionStrings
    /\ cmp12 = 0 /\ cmp21 = 0 /\ cmp11 = 0
    /\ IdleCompare /\ IdleDownload /\ IdleManifest

CompareVersions ==
    /\ vpc = "start"
    /\ vpc' = "done"
    /\ cmp12' = compareVersions(v1, v2)
    /\ cmp21' = compareVersions(v2, v1)
    /\ cmp11' = compareVersions(v1, v1)
    /\ UNCHANGED <<v1, v2, compareVars, downloadVars, manifestVars>>

NextVersions == CompareVersions


SpecVersions == InitVersions /\ [][NextVersions]_vars

====
